---------------------------- MODULE Spec2Model ----------------------------
(***************************************************************************)
(* Item-Diff-Marketplace: the line aligner (diffAlgorithms.ts), the JSON   *)
(* normalizer (editorUtils.ts) and the DiffViewer search state             *)
(* (DiffViewer.tsx, searchUtils.ts).                                       *)
(*                                                                         *)
(* A line is a tuple of one-character strings; a text is the non-empty     *)
(* sequence of its lines, i.e. what text.split("\n") returns.  The empty   *)
(* text "" is << <<>> >> (one empty line), as in JavaScript.               *)
(***************************************************************************)
EXTENDS Integers, Sequences, FiniteSets, TLC

VARIABLES
    \* ---- one call of an aligner (computeDiffWithAlignment, or the legacy
    \*      computeSimpleDiff / computeStructuredDiff), statement by statement
    text1,          \* argument text1 (as lines)
    text2,          \* argument text2 (as lines)
    phase,          \* "call" | "loop" | "done"
    loop,           \* the locals of the main loop
    diffResult,     \* the returned DiffResult, once phase = "done"
    exitPath,       \* which return statement produced diffResult
    \* ---- a mounted DiffViewer
    searchState,    \* searchState.current: preview and published
    views,          \* previewViewRef.current / publishedViewRef.current
    lastOp,         \* the last operation that ran, and what it returned
    props,          \* the props (previewJson, publishedJson, diffMode) the
                    \* effect last ran for
    \* ---- one search scan: a SearchCursor and the loop that drains it
    scan,           \* the document, the query, the cursor and the matches
    \* ---- formatJson applied to a value, and again to its own result
    fmt,            \* the value, the first result and the second result
    \* ---- ItemDiffTool, the component that mounts the DiffViewer
    tool            \* its React state, the comparisons in flight and the
                    \* pending setTimeout callbacks

alignVars == <<text1, text2, phase, loop, diffResult, exitPath>>

viewerVars == <<searchState, views, lastOp, props>>

vars == <<alignVars, viewerVars, scan, fmt, tool>>

-----------------------------------------------------------------------------
(* Bounds of the model *)

\* longest input text of the aligner, in lines
MaxLines == 3

\* longest document and longest query of a search scan, in characters
MaxDocLen == 4

MaxQueryLen == 2

\* longest string handed to formatJson, in characters
MaxJsonLen == 3

(* Program constants *)

\* "if (lines1.length > 10000 || lines2.length > 10000)"
LARGE_INPUT_LIMIT == 10000

\* "j < Math.min(i2 + 5, lines2.length)"
LOOK_AHEAD == 5

-----------------------------------------------------------------------------
(* Helpers standing for JavaScript primitives *)

Min(a, b) == IF a < b THEN a ELSE b

Max(a, b) == IF a > b THEN a ELSE b

EmptyLine == <<>>

\* Array.prototype.join("\n") of an array of lines, read back as lines:
\* [].join("\n") is "", which is the text of one empty line.
JoinLines(rows) == IF rows = <<>> THEN <<EmptyLine>> ELSE rows

\* the lines the aligner is exercised on: the empty line and three others
LineSet == {EmptyLine, <<"a">>, <<"b">>, <<"x">>}

SmallTexts == UNION {[1..n -> LineSet] : n \in 1..MaxLines}

\* a text just over the large-input limit
BigText == [k \in 1..(LARGE_INPUT_LIMIT + 1) |-> <<"a">>]

-----------------------------------------------------------------------------
(* diffAlgorithms.ts: computeSimpleDiff, the fallback *)

\* the rows i (0-based) with line1 !== line2 and `mine` truthy
SimpleDiffRows(mine, other) ==
    {i \in 0..(Max(Len(mine), Len(other)) - 1) :
        LET m == IF i < Len(mine) THEN mine[i + 1] ELSE EmptyLine
            o == IF i < Len(other) THEN other[i + 1] ELSE EmptyLine
        IN  m # o /\ m # EmptyLine}

computeSimpleDiff(t1, t2) ==
    [alignedText1 |-> t1,
     alignedText2 |-> t2,
     diffLines1   |-> SimpleDiffRows(t1, t2),
     diffLines2   |-> SimpleDiffRows(t2, t1)]

-----------------------------------------------------------------------------
(* diffAlgorithms.ts: computeDiffWithAlignment, the iteration-bounded one,  *)
(* taken to be the one DiffViewer.tsx imports from ./utils/diffAlgorithms   *)

\* the limit without the factor 2
MAX_ITERATIONS_Single(lines1, lines2) == Max(Len(lines1), Len(lines2))

\* "const MAX_ITERATIONS = Math.max(lines1.length, lines2.length) * 2"
MAX_ITERATIONS(lines1, lines2) == Max(Len(lines1), Len(lines2)) * 2

TooLarge(lines1, lines2) ==
    Len(lines1) > LARGE_INPUT_LIMIT \/ Len(lines2) > LARGE_INPUT_LIMIT

LoopInit ==
    [alignedText1 |-> <<>>, alignedText2 |-> <<>>,
     diffLines1 |-> {}, diffLines2 |-> {},
     i1 |-> 0, i2 |-> 0, alignedIndex |-> 0, iterations |-> 0,
     broke |-> FALSE]

\* the while condition; `broke` records that the "safety break" left the loop
LoopCond(st, lines1, lines2) ==
    /\ ~st.broke
    /\ (st.i1 < Len(lines1) \/ st.i2 < Len(lines2))
    /\ st.iterations < MAX_ITERATIONS(lines1, lines2)

\* "for (let j = from + 1; j < Math.min(from + 5, lines.length); j++)
\*    if (lines[j] === target) ..."   (0-based j)
FoundLater(lines, from, target) ==
    \E j \in (from + 1)..(Min(from + LOOK_AHEAD, Len(lines)) - 1) :
        lines[j + 1] = target

\* Emit that never adds the row to a diff set
EmitUnmarked(st, row1, row2, d1, d2, adv1, adv2) ==
    [st EXCEPT !.alignedText1 = Append(@, row1),
               !.alignedText2 = Append(@, row2),
               !.i1 = @ + adv1,
               !.i2 = @ + adv2,
               !.alignedIndex = @ + 1]

\* push one row and advance; d1/d2 say whether the row is added to the diff sets
Emit(st, row1, row2, d1, d2, adv1, adv2) ==
    [st EXCEPT !.alignedText1 = Append(@, row1),
               !.alignedText2 = Append(@, row2),
               !.diffLines1 = IF d1 THEN @ \cup {st.alignedIndex} ELSE @,
               !.diffLines2 = IF d2 THEN @ \cup {st.alignedIndex} ELSE @,
               !.i1 = @ + adv1,
               !.i2 = @ + adv2,
               !.alignedIndex = @ + 1]

\* MatchRow with the row marked on both sides, as the "genuinely different"
\* branch does
MatchRowMarked(st, line1, line2) == Emit(st, line1, line2, TRUE, TRUE, 1, 1)

\* lines 179-183: the lines match exactly, add both and advance
MatchRow(st, line1, line2) == Emit(st, line1, line2, FALSE, FALSE, 1, 1)

\* JavaScript truthiness of "i < lines.length ? lines[i] : null":
\* null and the empty string are both falsy
Truthy(lines, i) == i < Len(lines) /\ lines[i + 1] # EmptyLine

\* LoopBody whose last branch neither breaks nor counts the iteration
LoopBodyStalls(st0, lines1, lines2) ==
    LET st    == [st0 EXCEPT !.iterations = @ + 1]
        t1    == Truthy(lines1, st.i1)
        t2    == Truthy(lines2, st.i2)
        line1 == lines1[st.i1 + 1]
        line2 == lines2[st.i2 + 1]
    IN  IF t1 /\ t2 /\ line1 = line2
          THEN MatchRow(st, line1, line2)
        ELSE IF t1 /\ ~t2
          THEN Emit(st, line1, EmptyLine, TRUE, FALSE, 1, 0)
        ELSE IF ~t1 /\ t2
          THEN Emit(st, EmptyLine, line2, FALSE, TRUE, 0, 1)
        ELSE IF t1 /\ t2
          THEN IF FoundLater(lines2, st.i2, line1)
                 THEN Emit(st, EmptyLine, line2, FALSE, TRUE, 0, 1)
               ELSE IF FoundLater(lines1, st.i1, line2)
                 THEN Emit(st, line1, EmptyLine, TRUE, FALSE, 1, 0)
               ELSE Emit(st, line1, line2, TRUE, TRUE, 1, 1)
        ELSE st0

\* one iteration of the while loop
LoopBody(st0, lines1, lines2) ==
    LET st    == [st0 EXCEPT !.iterations = @ + 1]
        t1    == Truthy(lines1, st.i1)
        t2    == Truthy(lines2, st.i2)
        line1 == lines1[st.i1 + 1]
        line2 == lines2[st.i2 + 1]
    IN  IF t1 /\ t2 /\ line1 = line2
          THEN MatchRow(st, line1, line2)
        ELSE IF t1 /\ ~t2
          THEN Emit(st, line1, EmptyLine, TRUE, FALSE, 1, 0)
        ELSE IF ~t1 /\ t2
          THEN Emit(st, EmptyLine, line2, FALSE, TRUE, 0, 1)
        ELSE IF t1 /\ t2
          THEN IF FoundLater(lines2, st.i2, line1)
                 THEN Emit(st, EmptyLine, line2, FALSE, TRUE, 0, 1)
               ELSE IF FoundLater(lines1, st.i1, line2)
                 THEN Emit(st, line1, EmptyLine, TRUE, FALSE, 1, 0)
               ELSE Emit(st, line1, line2, TRUE, TRUE, 1, 1)
        ELSE [st EXCEPT !.broke = TRUE]

\* "if (iterations >= MAX_ITERATIONS) return computeSimpleDiff(text1, text2)"
HitLimit(st, lines1, lines2) ==
    st.iterations >= MAX_ITERATIONS(lines1, lines2)

LoopResult(st) ==
    [alignedText1 |-> JoinLines(st.alignedText1),
     alignedText2 |-> JoinLines(st.alignedText2),
     diffLines1   |-> st.diffLines1,
     diffLines2   |-> st.diffLines2]

RECURSIVE RunLoop(_, _, _)
RunLoop(st, lines1, lines2) ==
    IF LoopCond(st, lines1, lines2)
      THEN RunLoop(LoopBody(st, lines1, lines2), lines1, lines2)
      ELSE st

\* the whole function, as the DiffViewer calls it
computeDiffWithAlignment(t1, t2) ==
    IF TooLarge(t1, t2)
      THEN computeSimpleDiff(t1, t2)
      ELSE LET st == RunLoop(LoopInit, t1, t2)
           IN  IF HitLimit(st, t1, t2)
                 THEN computeSimpleDiff(t1, t2)
                 ELSE LoopResult(st)

-----------------------------------------------------------------------------
(* The legacy diffAlgorithms.ts: computeSimpleDiff = computeStructuredDiff   *)
(* on the split lines                                                       *)

\* the distance k - from of the first k the look-ahead loop finds
LaterDistance(lines, from, target) ==
    CHOOSE d \in 1..LOOK_AHEAD :
        /\ from + d < Min(from + LOOK_AHEAD, Len(lines))
        /\ lines[from + d + 1] = target
        /\ \A e \in 1..(d - 1) : lines[from + e + 1] # target

\* the while condition "i < m || j < n"
StructuredCond(st, lines1, lines2) ==
    st.i1 < Len(lines1) \/ st.i2 < Len(lines2)

\* StructuredBody whose insertion also advances the left cursor
StructuredBodySkips(st, lines1, lines2) ==
    IF st.i1 >= Len(lines1)
      THEN Emit(st, EmptyLine, lines2[st.i2 + 1], FALSE, TRUE, 0, 1)
    ELSE IF st.i2 >= Len(lines2)
      THEN Emit(st, lines1[st.i1 + 1], EmptyLine, TRUE, FALSE, 1, 0)
    ELSE LET line1  == lines1[st.i1 + 1]
             line2  == lines2[st.i2 + 1]
             insert == FoundLater(lines2, st.i2, line1)
             delete == FoundLater(lines1, st.i1, line2)
         IN  IF line1 = line2
               THEN Emit(st, line1, line2, FALSE, FALSE, 1, 1)
             ELSE IF insert /\ (~delete \/ LaterDistance(lines1, st.i1, line2)
                                            >= LaterDistance(lines2, st.i2, line1))
               THEN Emit(st, EmptyLine, line2, FALSE, TRUE, 1, 1)
             ELSE IF delete
               THEN Emit(st, line1, EmptyLine, TRUE, FALSE, 1, 0)
             ELSE Emit(st, line1, line2, TRUE, TRUE, 1, 1)

\* one iteration of the while loop of computeStructuredDiff: bestMatch is
\* the insert match unless the delete match has a strictly smaller distance
StructuredBody(st, lines1, lines2) ==
    IF st.i1 >= Len(lines1)
      THEN Emit(st, EmptyLine, lines2[st.i2 + 1], FALSE, TRUE, 0, 1)
    ELSE IF st.i2 >= Len(lines2)
      THEN Emit(st, lines1[st.i1 + 1], EmptyLine, TRUE, FALSE, 1, 0)
    ELSE LET line1  == lines1[st.i1 + 1]
             line2  == lines2[st.i2 + 1]
             insert == FoundLater(lines2, st.i2, line1)
             delete == FoundLater(lines1, st.i1, line2)
         IN  IF line1 = line2
               THEN Emit(st, line1, line2, FALSE, FALSE, 1, 1)
             ELSE IF insert /\ (~delete \/ LaterDistance(lines1, st.i1, line2)
                                            >= LaterDistance(lines2, st.i2, line1))
               THEN Emit(st, EmptyLine, line2, FALSE, TRUE, 0, 1)
             ELSE IF delete
               THEN Emit(st, line1, EmptyLine, TRUE, FALSE, 1, 0)
             ELSE Emit(st, line1, line2, TRUE, TRUE, 1, 1)

-----------------------------------------------------------------------------
(* Strings.  A JavaScript string is a tuple of one-character strings; "\n"  *)
(* and "\r" are characters of it.                                          *)

Str0 == <<>>

IsWs(c) == c \in {" ", "\n", "\r"}

\* String.prototype.split("\n"), as a sequence of lines
RECURSIVE SplitLines(_)
SplitLines(s) ==
    IF \A k \in 1..Len(s) : s[k] # "\n"
      THEN <<s>>
      ELSE LET p == CHOOSE k \in 1..Len(s) :
                        s[k] = "\n" /\ \A j \in 1..(k - 1) : s[j] # "\n"
           IN  <<SubSeq(s, 1, p - 1)>> \o SplitLines(SubSeq(s, p + 1, Len(s)))

\* Array.prototype.join("\n"), as a string
RECURSIVE JoinChars(_)
JoinChars(lines) ==
    IF lines = <<>> THEN Str0
    ELSE IF Len(lines) = 1 THEN lines[1]
    ELSE lines[1] \o <<"\n">> \o JoinChars(Tail(lines))

\* .replace(/\r\n/g, "\n").replace(/\r/g, "\n")
RECURSIVE NormalizeEol(_)
NormalizeEol(s) ==
    IF s = <<>> THEN s
    ELSE IF s[1] = "\r" /\ Len(s) >= 2 /\ s[2] = "\n"
      THEN <<"\n">> \o NormalizeEol(SubSeq(s, 3, Len(s)))
    ELSE IF s[1] = "\r"
      THEN <<"\n">> \o NormalizeEol(Tail(s))
    ELSE <<s[1]>> \o NormalizeEol(Tail(s))

\* String.prototype.trimEnd / trimStart / trim
RECURSIVE TrimEnd(_)
TrimEnd(s) ==
    IF s # <<>> /\ IsWs(s[Len(s)]) THEN TrimEnd(SubSeq(s, 1, Len(s) - 1)) ELSE s

RECURSIVE TrimStart(_)
TrimStart(s) ==
    IF s # <<>> /\ IsWs(s[1]) THEN TrimStart(Tail(s)) ELSE s

Trim(s) == TrimStart(TrimEnd(s))

-----------------------------------------------------------------------------
(* JSON.parse and JSON.stringify(v, null, 2), for the JSON texts that can   *)
(* be written with the characters of JsonChars and the three literals:     *)
(* numbers of the digits 1 and 2, true, false, null, arrays of them, and   *)
(* whitespace.  No string and no object can be written with these          *)
(* characters (they need a quote or a brace).                              *)

JsonChars == {"1", "2", "[", "]", ",", " ", "\n", "\r", "a", "A", "b"}

Digits == {"1", "2"}

Num(d) == [t |-> "num", d |-> d, e |-> <<>>]

Arr(e) == [t |-> "arr", d |-> <<>>, e |-> e]

\* true, false, null
Literals == { <<"t", "r", "u", "e">>, <<"f", "a", "l", "s", "e">>,
              <<"n", "u", "l", "l">> }

Lit(w) == [t |-> "lit", d |-> w, e |-> <<>>]

\* the word w stands in s at s[i]
StartsWith(s, i, w) ==
    i + Len(w) - 1 <= Len(s) /\ SubSeq(s, i, i + Len(w) - 1) = w

ParseFail == [ok |-> FALSE, val |-> Num(<<>>), next |-> 0]

RECURSIVE SkipWs(_, _)
SkipWs(s, i) == IF i <= Len(s) /\ IsWs(s[i]) THEN SkipWs(s, i + 1) ELSE i

RECURSIVE DigitsEnd(_, _)
DigitsEnd(s, i) ==
    IF i <= Len(s) /\ s[i] \in Digits THEN DigitsEnd(s, i + 1) ELSE i

RECURSIVE ParseValue(_, _)
RECURSIVE ParseElements(_, _, _)

\* a value starting exactly at s[i]
ParseValue(s, i) ==
    IF i > Len(s) THEN ParseFail
    ELSE IF s[i] \in Digits
      THEN LET j == DigitsEnd(s, i)
           IN  [ok |-> TRUE, val |-> Num(SubSeq(s, i, j - 1)), next |-> j]
    ELSE IF \E w \in Literals : StartsWith(s, i, w)
      THEN LET w == CHOOSE w \in Literals : StartsWith(s, i, w)
           IN  [ok |-> TRUE, val |-> Lit(w), next |-> i + Len(w)]
    ELSE IF s[i] = "["
      THEN LET j == SkipWs(s, i + 1)
           IN  IF j <= Len(s) /\ s[j] = "]"
                 THEN [ok |-> TRUE, val |-> Arr(<<>>), next |-> j + 1]
                 ELSE ParseElements(s, j, <<>>)
    ELSE ParseFail

\* the elements of an array from s[i] (whitespace skipped), `acc` parsed so far
ParseElements(s, i, acc) ==
    LET r == ParseValue(s, i)
        j == SkipWs(s, r.next)
    IN  IF ~r.ok \/ j > Len(s) THEN ParseFail
        ELSE IF s[j] = "]"
          THEN [ok |-> TRUE, val |-> Arr(Append(acc, r.val)), next |-> j + 1]
        ELSE IF s[j] = ","
          THEN ParseElements(s, SkipWs(s, j + 1), Append(acc, r.val))
        ELSE ParseFail

\* JSON.parse(s): ok is FALSE where JSON.parse throws
JSONparse(s) ==
    LET r == ParseValue(s, SkipWs(s, 1))
    IN  IF r.ok /\ SkipWs(s, r.next) = Len(s) + 1 THEN r ELSE ParseFail

Spaces(n) == [k \in 1..n |-> " "]

RECURSIVE StringifyLines(_, _)
RECURSIVE StringifyElements(_, _)

\* the lines of JSON.stringify(v, null, 2) for v nested `depth` deep; the
\* first line carries no indentation, the others are indented in full
StringifyLines(v, depth) ==
    IF v.t \in {"num", "lit"} THEN <<v.d>>
    ELSE IF v.e = <<>> THEN << <<"[", "]">> >>
    ELSE << <<"[">> >> \o StringifyElements(v.e, depth + 1)
                    \o << Spaces(2 * depth) \o <<"]">> >>

StringifyElements(es, depth) ==
    LET ls    == StringifyLines(es[1], depth)
        first == Spaces(2 * depth) \o ls[1]
        body  == <<first>> \o Tail(ls)
        n     == Len(body)
    IN  IF Len(es) = 1 THEN body
        ELSE [body EXCEPT ![n] = @ \o <<",">>] \o StringifyElements(Tail(es), depth)

JSONstringify(v) == JoinChars(StringifyLines(v, 0))

-----------------------------------------------------------------------------
(* editorUtils.ts: formatJson *)

\* a value handed to the DiffViewer as previewJson / publishedJson:
\*   kind "string": a string, chars
\*   kind "object": an object or array (typeof "object", not null), value
\*   kind "other":  number, boolean, null or undefined; chars is
\*                  String(v || ""), json is JSON.stringify(v)
StringInput(chars) == [kind |-> "string", chars |-> chars, value |-> Num(<<>>), json |-> Str0]

ObjectInput(v) == [kind |-> "object", chars |-> Str0, value |-> v, json |-> Str0]

OtherInput(asString, asJson) ==
    [kind |-> "other", chars |-> asString, value |-> Num(<<>>), json |-> asJson]

\* the string without its trailing newlines: what /\n*$/ leaves
RECURSIVE StripTrailingEol(_)
StripTrailingEol(s) ==
    IF s # <<>> /\ s[Len(s)] = "\n"
      THEN StripTrailingEol(SubSeq(s, 1, Len(s) - 1))
      ELSE s

\* lines 45-57: stringify, normalize line ends, trim each line's end, end
\* with a single newline
FormatParsed(v) ==
    LET result  == NormalizeEol(JSONstringify(v))
        trimmed == JoinChars([k \in 1..Len(SplitLines(result)) |->
                                  TrimEnd(SplitLines(result)[k])])
    IN  StripTrailingEol(trimmed) \o <<"\n">>

\* lines 58-61: the catch block, and line 42
StringOf(jsonData) == jsonData.chars

formatJson(jsonData) ==
    IF jsonData.kind = "string"
      THEN LET parsed == JSONparse(Trim(NormalizeEol(jsonData.chars)))
           IN  IF parsed.ok THEN FormatParsed(parsed.val) ELSE StringOf(jsonData)
    ELSE IF jsonData.kind = "object"
      THEN FormatParsed(jsonData.value)
    ELSE StringOf(jsonData)

-----------------------------------------------------------------------------
(* searchUtils.ts: createSearchCursor(doc, query, false, false, 0, doc.length) *)
(* -- a SearchCursor over the whole document, normalized by toLowerCase      *)

ToLowerCase(c) == IF c = "A" THEN "a" ELSE c

LowerCase(s) == [k \in 1..Len(s) |-> ToLowerCase(s[k])]

\* the query occurs in doc at offset pos (0-based), ignoring case
MatchAt(doc, query, pos) ==
    /\ pos + Len(query) <= Len(doc)
    /\ LowerCase(SubSeq(doc, pos + 1, pos + Len(query))) = LowerCase(query)

\* the spans cursor.nextOverlapping() would yield: after a match the scan
\* resumes one character after the start of that match
RECURSIVE CursorMatchesOverlapping(_, _, _)
CursorMatchesOverlapping(doc, query, pos) ==
    IF pos + Len(query) > Len(doc) THEN <<>>
    ELSE IF MatchAt(doc, query, pos)
      THEN <<[from |-> pos, to |-> pos + Len(query)]>>
               \o CursorMatchesOverlapping(doc, query, pos + 1)
    ELSE CursorMatchesOverlapping(doc, query, pos + 1)

\* the spans cursor.next() yields from offset pos on: after a match the scan
\* resumes at the end of that match
RECURSIVE CursorMatchesFrom(_, _, _)
CursorMatchesFrom(doc, query, pos) ==
    IF pos + Len(query) > Len(doc) THEN <<>>
    ELSE IF MatchAt(doc, query, pos)
      THEN <<[from |-> pos, to |-> pos + Len(query)]>>
               \o CursorMatchesFrom(doc, query, pos + Len(query))
    ELSE CursorMatchesFrom(doc, query, pos + 1)

createSearchCursor(doc, query) == CursorMatchesFrom(doc, query, 0)

\* the legacy search helper: "if (!query.trim()) return []", then the same
\* SearchCursor scan collected into a list
searchInEditor(doc, query) ==
    IF Trim(query) = Str0 THEN <<>> ELSE createSearchCursor(doc, query)

-----------------------------------------------------------------------------
(* DiffViewer.tsx: the editors and the search state *)

Sides == {"preview", "published"}

EmptySide == [query |-> Str0, currentTarget |-> 0, total |-> 0]

\* line 40-43: the initial searchState ref
EmptySearchState == [preview |-> EmptySide, published |-> EmptySide]

NoSpan == [from |-> 0, to |-> 0]

\* previewViewRef.current === null
\* A view is its document, the rows its diff extension marks, whether the
\* search-target plugin is configured in its target compartment, and its
\* selection (the scroll target is the selection's from).  The decorations
\* the plugins draw are not part of the state: nothing reads them back.
NoView ==
    [alive |-> FALSE, doc |-> Str0, diffLines |-> {},
     targetPlugin |-> FALSE, selection |-> NoSpan]

\* EditorState.create({doc}): the document's line breaks are read as "\n"
EditorDoc(text) == NormalizeEol(text)

\* lines 144-158: new EditorView, both search compartments .of([])
NewView(text, diffLines, diffMode) ==
    [alive |-> TRUE, doc |-> EditorDoc(text),
     diffLines |-> IF diffMode THEN diffLines ELSE {},
     targetPlugin |-> FALSE, selection |-> NoSpan]

\* searchUtils.ts 90-125: update() of the search-target plugin of `side`,
\* run on a view update: besides decorating the currentTarget-th match it
\* writes the number of matches back to searchState.current[side].total
TargetPluginUpdate(side, ss, view) ==
    LET q  == ss[side].query
        ct == ss[side].currentTarget
    IN  IF ~view.targetPlugin \/ q = Str0 \/ ct = 0 THEN ss
        ELSE [ss EXCEPT ![side].total = Len(createSearchCursor(view.doc, q))]

\* view.dispatch({effects: scrollIntoView(match.from), selection: match})
SelectMatch(side, ss, view, match) ==
    [ss   |-> TargetPluginUpdate(side, ss, view),
     view |-> [view EXCEPT !.selection = match]]

\* reconfigure of both compartments with fresh plugins (lines 244-252)
\* or with [] (lines 212-217); a plugin created by a transaction does not
\* get update() called for that transaction
SetPlugins(view, on) == [view EXCEPT !.targetPlugin = on]

\* lines 408-417: reconfigure of the target compartment with a fresh plugin
ResetTargetPlugin(view) == [view EXCEPT !.targetPlugin = TRUE]

\* SearchSide that reuses the stored total when the query is the stored one
SearchSideCached(side, key, ss, vw, query) ==
    IF ~vw[side].alive \/ query = Str0
      THEN [ss  |-> [ss EXCEPT ![key] = EmptySide],
            vw  |-> IF vw[side].alive
                      THEN [vw EXCEPT ![side] = SetPlugins(@, FALSE)]
                      ELSE vw,
            ret |-> 0]
      ELSE LET ms  == createSearchCursor(vw[side].doc, query)
               n   == IF query = ss[key].query THEN ss[key].total ELSE Len(ms)
               ss1 == [ss EXCEPT ![key] = [query |-> query, currentTarget |-> 1,
                                           total |-> n]]
           IN  [ss |-> ss1, vw |-> [vw EXCEPT ![side] = SetPlugins(@, TRUE)],
                ret |-> n]

\* lines 200-282 / 284-366: searchInPreview and searchInPublished are the
\* same code on the state `key` and the view `side`
SearchSide(side, key, ss, vw, query) ==
    IF ~vw[side].alive \/ query = Str0
      THEN [ss  |-> [ss EXCEPT ![key] = EmptySide],
            vw  |-> IF vw[side].alive
                      THEN [vw EXCEPT ![side] = SetPlugins(@, FALSE)]
                      ELSE vw,
            ret |-> 0]
      ELSE LET ms  == createSearchCursor(vw[side].doc, query)
               ss1 == [ss EXCEPT ![key] = [query |-> query, currentTarget |-> 1,
                                           total |-> Len(ms)]]
               v1  == SetPlugins(vw[side], TRUE)
               r   == IF Len(ms) > 0
                        THEN SelectMatch(key, ss1, v1, ms[1])
                        ELSE [ss |-> ss1, view |-> v1]
           IN  [ss |-> r.ss, vw |-> [vw EXCEPT ![side] = r.view], ret |-> Len(ms)]

searchInPreview(ss, vw, query) == SearchSide("preview", "preview", ss, vw, query)

\* the calls inside the try block of a search that can raise: the creation
\* of the counting cursor, the dispatch that reconfigures the compartments,
\* the dispatch that scrolls to the first match
ThrowPoints == {"cursor", "reconfigure", "scroll"}

\* lines 221-282 / 305-366 when the call `at` raises: the assignments before
\* it have been made, the catch block logs and returns 0
SearchSideThrows(side, key, ss, vw, query, at) ==
    LET ms  == createSearchCursor(vw[side].doc, query)
        ss0 == [ss EXCEPT ![key].query = query, ![key].currentTarget = 1]
        ss1 == [ss0 EXCEPT ![key].total = Len(ms)]
    IN  IF at = "cursor"
          THEN [ss |-> ss0, vw |-> vw, ret |-> 0]
        ELSE IF at = "reconfigure"
          THEN [ss |-> ss1, vw |-> vw, ret |-> 0]
        ELSE [ss |-> ss1, vw |-> [vw EXCEPT ![side] = SetPlugins(@, TRUE)],
              ret |-> 0]

\* searchInPublished writing searchState.current.preview
searchInPublishedPreviewKey(ss, vw, query) ==
    SearchSide("published", "preview", ss, vw, query)

searchInPublished(ss, vw, query) == SearchSide("published", "published", ss, vw, query)

\* line 382 / line 443
NextTarget(currentTarget, total) ==
    IF currentTarget >= total THEN 1 ELSE currentTarget + 1

PrevTarget(currentTarget, total) ==
    IF currentTarget <= 1 THEN total ELSE currentTarget - 1

\* FindMatch without the "if (!query || total === 0) return false" guard
FindMatchUnguarded(editor, ss, vw, target) ==
    LET view == vw[editor]
        cur  == ss[editor]
    IN  IF ~view.alive THEN [ss |-> ss, vw |-> vw, ret |-> FALSE]
        ELSE LET ss1 == [ss EXCEPT ![editor].currentTarget = target]
                 ms  == createSearchCursor(view.doc, cur.query)
                 r   == IF cur.query # Str0 /\ target >= 1 /\ target <= Len(ms)
                          THEN LET u == SelectMatch(editor, ss1, view, ms[target])
                               IN  [ss |-> u.ss, view |-> ResetTargetPlugin(u.view)]
                          ELSE [ss |-> ss1, view |-> view]
             IN  [ss |-> r.ss, vw |-> [vw EXCEPT ![editor] = r.view], ret |-> TRUE]

\* lines 368-427 / 429-488: findNextMatch and findPreviousMatch differ in
\* the target they compute
FindMatch(editor, ss, vw, target) ==
    LET view == vw[editor]
        cur  == ss[editor]
    IN  IF ~view.alive THEN [ss |-> ss, vw |-> vw, ret |-> FALSE]
        ELSE IF cur.query = Str0 \/ cur.total = 0
          THEN [ss |-> ss, vw |-> vw, ret |-> FALSE]
        ELSE LET ss1 == [ss EXCEPT ![editor].currentTarget = target]
                 ms  == createSearchCursor(view.doc, cur.query)
                 r   == IF target >= 1 /\ target <= Len(ms)
                          THEN LET u == SelectMatch(editor, ss1, view, ms[target])
                               IN  [ss |-> u.ss, view |-> ResetTargetPlugin(u.view)]
                          ELSE [ss |-> ss1, view |-> view]
             IN  [ss |-> r.ss, vw |-> [vw EXCEPT ![editor] = r.view], ret |-> TRUE]

findNextMatch(editor, ss, vw) ==
    FindMatch(editor, ss, vw,
              NextTarget(ss[editor].currentTarget, ss[editor].total))

findPreviousMatch(editor, ss, vw) ==
    FindMatch(editor, ss, vw,
              PrevTarget(ss[editor].currentTarget, ss[editor].total))

\* clearSearch resetting the preview side only
clearSearchPreviewOnly(ss, vw) ==
    [ss  |-> [ss EXCEPT !.preview = EmptySide],
     vw  |-> [s \in Sides |-> IF vw[s].alive THEN SetPlugins(vw[s], FALSE) ELSE vw[s]],
     ret |-> 0]

\* lines 490-525
clearSearch(ss, vw) ==
    [ss  |-> EmptySearchState,
     vw  |-> [s \in Sides |-> IF vw[s].alive THEN SetPlugins(vw[s], FALSE) ELSE vw[s]],
     ret |-> 0]

\* lines 527-530 and 540-543
getSearchMatches(editor) == searchState[editor].total

getCurrentMatchIndex(editor) == searchState[editor].currentTarget

\* lines 65-66: the text handed to the aligner
Formatted(jsonData, diffMode) ==
    IF diffMode THEN formatJson(jsonData)
    ELSE IF jsonData.kind = "string" THEN jsonData.chars
    ELSE IF jsonData.kind = "object" THEN JSONstringify(jsonData.value)
    ELSE jsonData.json

\* lines 47-194: the effect on [previewJson, publishedJson, isDark, diffMode]:
\* destroy both editors, format, align, create both editors
RebuildViews(previewJson, publishedJson, diffMode) ==
    LET formattedPreview   == Formatted(previewJson, diffMode)
        formattedPublished == Formatted(publishedJson, diffMode)
        result == computeDiffWithAlignment(SplitLines(formattedPreview),
                                           SplitLines(formattedPublished))
    IN  IF formattedPreview = Str0 \/ formattedPublished = Str0
          THEN [preview |-> NoView, published |-> NoView]
        ELSE IF diffMode
          THEN [preview   |-> NewView(JoinChars(result.alignedText1),
                                      result.diffLines1, TRUE),
                published |-> NewView(JoinChars(result.alignedText2),
                                      result.diffLines2, TRUE)]
        ELSE [preview   |-> NewView(formattedPreview, {}, FALSE),
              published |-> NewView(formattedPublished, {}, FALSE)]

-----------------------------------------------------------------------------
(* One call of computeDiffWithAlignment, statement by statement *)

NoResult ==
    [alignedText1 |-> <<EmptyLine>>, alignedText2 |-> <<EmptyLine>>,
     diffLines1 |-> {}, diffLines2 |-> {}]

\* the effect has not run
NoProps == <<>>

\* no DiffViewer is mounted
ViewerIdle ==
    /\ searchState = EmptySearchState
    /\ views = [preview |-> NoView, published |-> NoView]
    /\ lastOp = [op |-> "none", side |-> "none", ret |-> 0, query |-> Str0]
    /\ props = NoProps

\* no search scan is running
NoScan ==
    [caller |-> "none", doc |-> Str0, query |-> Str0, pos |-> 0,
     results |-> <<>>, phase |-> "idle"]

\* formatJson is not being called
NoFmt == [input |-> <<>>, first |-> Str0, second |-> Str0, phase |-> "idle"]

NoItem == "none"

NoComparison == [item |-> NoItem, pair |-> <<>>]

NoSearch ==
    [query |-> Str0, searchMode |-> "preview", currentMatchIndex |-> 0,
     totalMatches |-> 0]

\* ItemDiffTool is not rendered
NoTool ==
    [itemId |-> NoItem, service |-> FALSE, isInitializing |-> TRUE,
     isComparing |-> FALSE, comparisonResult |-> NoComparison, inflight |-> {},
     search |-> NoSearch, timers |-> {}]

\* no call of the aligner is running
AlignIdle ==
    /\ text1 = <<EmptyLine>>
    /\ text2 = <<EmptyLine>>
    /\ phase = "idle"
    /\ loop = LoopInit
    /\ diffResult = NoResult
    /\ exitPath = "none"

\* texts long enough to hold a line at every distance of the look-ahead
\* window and one beyond it
WindowTexts ==
    UNION {[1..n -> {<<"a">>, <<"x">>}] : n \in LOOK_AHEAD..(LOOK_AHEAD + 1)}

\* a short text against a long one, either way round
WindowPairs ==
    LET short == { <<(<<"a">>)>>, <<(<<"a">>), (<<"b">>)>> }
    IN  (short \X WindowTexts) \cup (WindowTexts \X short)

AlignInputs ==
    (SmallTexts \X SmallTexts)
        \cup {<<BigText, BigText>>, <<BigText, <<(<<"a">>)>> >>, << <<(<<"b">>)>>, BigText>>}
        \cup WindowPairs

AlignInit ==
    /\ \E p \in AlignInputs : text1 = p[1] /\ text2 = p[2]
    /\ phase = "call"
    /\ loop = LoopInit
    /\ diffResult = NoResult
    /\ exitPath = "none"
    /\ ViewerIdle
    /\ scan = NoScan
    /\ fmt = NoFmt
    /\ tool = NoTool

\* lines 153-156: the input is too large, return computeSimpleDiff
AlignTooLarge ==
    /\ phase = "call"
    /\ TooLarge(text1, text2)
    /\ diffResult' = computeSimpleDiff(text1, text2)
    /\ exitPath' = "large"
    /\ phase' = "done"
    /\ UNCHANGED <<text1, text2, loop, viewerVars, scan, fmt, tool>>

\* lines 158-170: enter the loop
AlignEnter ==
    /\ phase = "call"
    /\ ~TooLarge(text1, text2)
    /\ loop' = LoopInit
    /\ phase' = "loop"
    /\ UNCHANGED <<text1, text2, diffResult, exitPath, viewerVars, scan, fmt, tool>>

\* lines 172-242: one iteration
AlignIterate ==
    /\ phase = "loop"
    /\ LoopCond(loop, text1, text2)
    /\ loop' = LoopBody(loop, text1, text2)
    /\ UNCHANGED <<text1, text2, phase, diffResult, exitPath, viewerVars, scan, fmt, tool>>

\* lines 244-247: the iteration limit was reached, return computeSimpleDiff
AlignFallback ==
    /\ phase = "loop"
    /\ ~LoopCond(loop, text1, text2)
    /\ HitLimit(loop, text1, text2)
    /\ diffResult' = computeSimpleDiff(text1, text2)
    /\ exitPath' = "limit"
    /\ phase' = "done"
    /\ UNCHANGED <<text1, text2, loop, viewerVars, scan, fmt, tool>>

\* lines 253-258: return the aligned rows
AlignReturn ==
    /\ phase = "loop"
    /\ ~LoopCond(loop, text1, text2)
    /\ ~HitLimit(loop, text1, text2)
    /\ diffResult' = LoopResult(loop)
    /\ exitPath' = "loop"
    /\ phase' = "done"
    /\ UNCHANGED <<text1, text2, loop, viewerVars, scan, fmt, tool>>

AlignNext ==
    \/ AlignTooLarge
    \/ AlignEnter
    \/ AlignIterate
    \/ AlignFallback
    \/ AlignReturn

SpecAlign == AlignInit /\ [][AlignNext]_vars

\* the function runs to its return: a synchronous call is never suspended
SpecAlignFair == SpecAlign /\ WF_vars(AlignNext)

-----------------------------------------------------------------------------
(* One call of the legacy computeSimpleDiff, statement by statement *)

StructuredInputs == (SmallTexts \X SmallTexts) \cup WindowPairs

StructuredInit ==
    /\ \E p \in StructuredInputs : text1 = p[1] /\ text2 = p[2]
    /\ phase = "call"
    /\ loop = LoopInit
    /\ diffResult = NoResult
    /\ exitPath = "none"
    /\ ViewerIdle
    /\ scan = NoScan
    /\ fmt = NoFmt
    /\ tool = NoTool

\* split both texts, call computeStructuredDiff, initialise its locals
StructuredEnter ==
    /\ phase = "call"
    /\ loop' = LoopInit
    /\ phase' = "loop"
    /\ UNCHANGED <<text1, text2, diffResult, exitPath, viewerVars, scan, fmt, tool>>

\* one iteration
StructuredIterate ==
    /\ phase = "loop"
    /\ StructuredCond(loop, text1, text2)
    /\ loop' = StructuredBody(loop, text1, text2)
    /\ UNCHANGED <<text1, text2, phase, diffResult, exitPath, viewerVars, scan, fmt, tool>>

\* return the joined rows
StructuredReturn ==
    /\ phase = "loop"
    /\ ~StructuredCond(loop, text1, text2)
    /\ diffResult' = LoopResult(loop)
    /\ exitPath' = "structured"
    /\ phase' = "done"
    /\ UNCHANGED <<text1, text2, loop, viewerVars, scan, fmt, tool>>

StructuredNext ==
    \/ StructuredEnter
    \/ StructuredIterate
    \/ StructuredReturn

SpecStructured == StructuredInit /\ [][StructuredNext]_vars

-----------------------------------------------------------------------------
(* One search scan, cursor.next() by cursor.next(): searchInEditor, and the  *)
(* counting loop of searchInPreview / searchInPublished                      *)

ScanChars == {"a", "A", " "}

StringsUpTo(n) == UNION {[1..k -> ScanChars] : k \in 0..n}

\* who scans: searchInEditor returns early on "!query.trim()", the
\* DiffViewer handle on "!query"
Callers == {"searchInEditor", "DiffViewer"}

ScanInit ==
    /\ \E d \in StringsUpTo(MaxDocLen) : \E q \in StringsUpTo(MaxQueryLen) :
       \E c \in Callers :
           scan = [caller |-> c, doc |-> d, query |-> q, pos |-> 0,
                   results |-> <<>>, phase |-> "call"]
    /\ ViewerIdle
    /\ AlignIdle
    /\ fmt = NoFmt
    /\ tool = NoTool

\* the early return: no cursor is created, no matches
ScanBlankQuery ==
    /\ scan.phase = "call"
    /\ \/ scan.caller = "searchInEditor" /\ Trim(scan.query) = Str0
       \/ scan.caller = "DiffViewer" /\ scan.query = Str0
    /\ scan' = [scan EXCEPT !.phase = "done"]
    /\ UNCHANGED <<alignVars, viewerVars, fmt, tool>>

\* new SearchCursor(doc, query, 0, doc.length, x => x.toLowerCase())
ScanCreateCursor ==
    /\ scan.phase = "call"
    /\ ~ \/ scan.caller = "searchInEditor" /\ Trim(scan.query) = Str0
         \/ scan.caller = "DiffViewer" /\ scan.query = Str0
    /\ scan' = [scan EXCEPT !.phase = "scan"]
    /\ UNCHANGED <<alignVars, viewerVars, fmt, tool>>

\* cursor.next() yields a match: it is pushed (counted) and the cursor
\* stands at its end
ScanNextMatch ==
    /\ scan.phase = "scan"
    /\ CursorMatchesFrom(scan.doc, scan.query, scan.pos) # <<>>
    /\ LET match == CursorMatchesFrom(scan.doc, scan.query, scan.pos)[1]
       IN  scan' = [scan EXCEPT !.results = Append(@, match), !.pos = match.to]
    /\ UNCHANGED <<alignVars, viewerVars, fmt, tool>>

\* cursor.next().done: the loop ends
ScanDone ==
    /\ scan.phase = "scan"
    /\ CursorMatchesFrom(scan.doc, scan.query, scan.pos) = <<>>
    /\ scan' = [scan EXCEPT !.phase = "done"]
    /\ UNCHANGED <<alignVars, viewerVars, fmt, tool>>

ScanNext ==
    \/ ScanBlankQuery
    \/ ScanCreateCursor
    \/ ScanNextMatch
    \/ ScanDone

SpecScan == ScanInit /\ [][ScanNext]_vars

-----------------------------------------------------------------------------
(* The DiffViewer as a state machine: its effect, its handle, and the view  *)
(* updates the editors receive from the browser                             *)

\* values passed as previewJson / publishedJson
JsonTwoOnes == StringInput(<<"[", "1", ",", "1", "]">>)

JsonOneOne == StringInput(<<"[", "1", "]", "\n">>)

ArrayOfTwo == ObjectInput(Arr(<<Num(<<"2">>)>>))

NotJson == StringInput(<<"a", "A", " ", "1", "\n", "\n", "a", "b">>)

NullInput == OtherInput(Str0, <<"n", "u", "l", "l">>)

\* the props (previewJson, publishedJson, diffMode) the viewer is given
PropsSet ==
    { <<JsonTwoOnes, JsonOneOne, TRUE>>,
      <<NotJson, ArrayOfTwo, TRUE>>,
      <<NullInput, JsonOneOne, TRUE>>,
      <<JsonOneOne, NotJson, FALSE>> }

\* the queries typed into the search box
Queries == { Str0, <<" ">>, <<"1">>, <<"a">> }

\* the record of an operation: its name, the side it was called on, what it
\* returned and, for a search, the query it was given
SearchOp(op, side, ret, query) ==
    [op |-> op, side |-> side, ret |-> ret, query |-> query]

Op(op, side, ret) == SearchOp(op, side, ret, Str0)

\* the component has rendered and its first effect has not run yet
ViewerInit ==
    /\ searchState = EmptySearchState
    /\ views = [preview |-> NoView, published |-> NoView]
    /\ lastOp = Op("mount", "none", 0)
    /\ props = NoProps

Rebuild ==
    \E p \in PropsSet :
        /\ props' = p
        /\ views' = RebuildViews(p[1], p[2], p[3])
        /\ lastOp' = Op("rebuild", "none", 0)
        /\ UNCHANGED searchState
        /\ UNCHANGED <<alignVars, scan, fmt, tool>>

SearchInPreview ==
    \E query \in Queries :
        LET r == searchInPreview(searchState, views, query)
        IN  /\ searchState' = r.ss
            /\ views' = r.vw
            /\ lastOp' = SearchOp("searchInPreview", "preview", r.ret, query)
            /\ UNCHANGED <<alignVars, scan, fmt, tool, props>>

SearchInPublished ==
    \E query \in Queries :
        LET r == searchInPublished(searchState, views, query)
        IN  /\ searchState' = r.ss
            /\ views' = r.vw
            /\ lastOp' = SearchOp("searchInPublished", "published", r.ret, query)
            /\ UNCHANGED <<alignVars, scan, fmt, tool, props>>

FindNextMatch ==
    \E editor \in Sides :
        LET r == findNextMatch(editor, searchState, views)
        IN  /\ searchState' = r.ss
            /\ views' = r.vw
            /\ lastOp' = Op("findNextMatch", editor, r.ret)
            /\ UNCHANGED <<alignVars, scan, fmt, tool, props>>

FindPreviousMatch ==
    \E editor \in Sides :
        LET r == findPreviousMatch(editor, searchState, views)
        IN  /\ searchState' = r.ss
            /\ views' = r.vw
            /\ lastOp' = Op("findPreviousMatch", editor, r.ret)
            /\ UNCHANGED <<alignVars, scan, fmt, tool, props>>

ClearSearch ==
    LET r == clearSearch(searchState, views)
    IN  /\ searchState' = r.ss
        /\ views' = r.vw
        /\ lastOp' = Op("clearSearch", "none", 0)
        /\ UNCHANGED <<alignVars, scan, fmt, tool, props>>

\* a view update not caused by the handle (scrolling, focus, a resize):
\* the plugins installed in that editor run their update()
ViewUpdate ==
    \E side \in Sides :
        /\ views[side].alive
        /\ searchState' = TargetPluginUpdate(side, searchState, views[side])
        /\ lastOp' = Op("viewUpdate", side, 0)
        /\ UNCHANGED views
        /\ UNCHANGED <<alignVars, scan, fmt, tool, props>>

Next ==
    \/ Rebuild
    \/ SearchInPreview
    \/ SearchInPublished
    \/ FindNextMatch
    \/ FindPreviousMatch
    \/ ClearSearch
    \/ ViewUpdate

Init == ViewerInit /\ AlignIdle /\ scan = NoScan /\ fmt = NoFmt /\ tool = NoTool

Spec == Init /\ [][Next]_vars

-----------------------------------------------------------------------------
(* The DiffViewer handle when a call inside a search's try block can raise: *)
(* rebuilds, searches that complete or raise, clears and view updates      *)

\* the try block is entered with an editor and a non-empty query; the
\* scroll dispatch is only made when there is a match
CanThrow(side, query, at) ==
    /\ views[side].alive
    /\ query # Str0
    /\ at = "scroll" => Len(createSearchCursor(views[side].doc, query)) > 0

SearchInPreviewThrows ==
    \E query \in Queries, at \in ThrowPoints :
        /\ CanThrow("preview", query, at)
        /\ LET r == SearchSideThrows("preview", "preview", searchState, views,
                                     query, at)
           IN  /\ searchState' = r.ss
               /\ views' = r.vw
               /\ lastOp' = SearchOp("searchInPreview", "preview", r.ret, query)
        /\ UNCHANGED <<alignVars, scan, fmt, tool, props>>

SearchInPublishedThrows ==
    \E query \in Queries, at \in ThrowPoints :
        /\ CanThrow("published", query, at)
        /\ LET r == SearchSideThrows("published", "published", searchState,
                                     views, query, at)
           IN  /\ searchState' = r.ss
               /\ views' = r.vw
               /\ lastOp' = SearchOp("searchInPublished", "published", r.ret, query)
        /\ UNCHANGED <<alignVars, scan, fmt, tool, props>>

ThrowNext ==
    \/ Rebuild
    \/ SearchInPreview
    \/ SearchInPublished
    \/ SearchInPreviewThrows
    \/ SearchInPublishedThrows
    \/ ClearSearch
    \/ ViewUpdate

SpecThrow == Init /\ [][ThrowNext]_vars

-----------------------------------------------------------------------------
(* ItemDiffTool: the selected item, the comparisons it starts, the search   *)
(* box, and the DiffViewer it mounts on a comparison result                 *)

\* the items the page builder can select
Items == {"item1", "item2"}

\* the layouts a comparison can return (preview.rendered, published.rendered)
ResultPairs == { <<JsonTwoOnes, JsonOneOne>>, <<NotJson, ArrayOfTwo>> }

\* lines 1109-1114: the editors of a DiffViewer mounted for a result, with
\* the default diffMode
MountedViews ==
    [pair \in ResultPairs |-> RebuildViews(pair[1], pair[2], TRUE)]

\* the most setTimeout callbacks pending at once
MaxTimers == 1

\* the page is rendered past its early returns (lines 712-746)
Rendered(t) == ~t.isInitializing /\ t.itemId # NoItem

\* line 916: the card with the search box and the DiffViewer is rendered,
\* and diffViewerRef.current is the DiffViewer's handle
Mounted(t) ==
    Rendered(t) /\ ~t.isComparing /\ t.comparisonResult # NoComparison

\* lines 418-424: performComparison up to its await
performComparison(t) ==
    IF ~t.service \/ t.itemId = NoItem THEN t
    ELSE [t EXCEPT !.isComparing = TRUE,
                   !.comparisonResult = NoComparison,
                   !.inflight = @ \cup {t.itemId}]

\* lines 523-532: the effect on [itemId, !!comparisonService, isInitializing]
AutoCompare(t) ==
    IF t.itemId # NoItem /\ t.service /\ ~t.isComparing /\ ~t.isInitializing
      THEN performComparison(t)
      ELSE t

\* the DiffViewer after the render of t: unmounted, or the one there was
Unmounted == [ss |-> EmptySearchState,
              vw |-> [preview |-> NoView, published |-> NoView],
              op |-> Op("unmount", "none", 0),
              props |-> NoProps]

\* lines 535-585: handleSearch(query, mode)
handleSearch(t, ss, vw, op, query, mode) ==
    IF ~Mounted(t) \/ Trim(query) = Str0
      THEN LET r == IF Mounted(t) THEN clearSearch(ss, vw)
                    ELSE [ss |-> ss, vw |-> vw, ret |-> 0]
           IN  [tool |-> [t EXCEPT !.search.query = Str0,
                                   !.search.currentMatchIndex = 0,
                                   !.search.totalMatches = 0],
                ss |-> r.ss, vw |-> r.vw,
                op |-> IF Mounted(t) THEN Op("clearSearch", "none", 0) ELSE op]
      ELSE LET r == IF mode = "preview" THEN searchInPreview(ss, vw, query)
                    ELSE searchInPublished(ss, vw, query)
           IN  [tool |-> [t EXCEPT !.search =
                            [query |-> query, searchMode |-> mode,
                             currentMatchIndex |-> IF r.ret > 0 THEN 1 ELSE 0,
                             totalMatches |-> r.ret]],
                ss |-> r.ss, vw |-> r.vw,
                op |-> SearchOp(IF mode = "preview" THEN "searchInPreview"
                                ELSE "searchInPublished", mode, r.ret, query)]

\* lines 587-613 / 615-641: handleNextMatch and handlePreviousMatch
handleMatch(t, ss, vw, op, next) ==
    IF ~Mounted(t) \/ t.search.totalMatches = 0
      THEN [tool |-> t, ss |-> ss, vw |-> vw, op |-> op]
      ELSE LET mode == t.search.searchMode
               r == IF next THEN findNextMatch(mode, ss, vw)
                    ELSE findPreviousMatch(mode, ss, vw)
           IN  [tool |-> IF r.ret
                           THEN [t EXCEPT !.search.currentMatchIndex =
                                            r.ss[mode].currentTarget]
                           ELSE t,
                ss |-> r.ss, vw |-> r.vw,
                op |-> Op(IF next THEN "findNextMatch" ELSE "findPreviousMatch",
                          mode, IF r.ret THEN 1 ELSE 0)]

\* lines 644-658: handleClearSearch
handleClearSearch(t, ss, vw, op) ==
    LET r == IF Mounted(t) THEN clearSearch(ss, vw)
             ELSE [ss |-> ss, vw |-> vw, ret |-> 0]
    IN  [tool |-> [t EXCEPT !.search.query = Str0,
                            !.search.currentMatchIndex = 0,
                            !.search.totalMatches = 0],
         ss |-> r.ss, vw |-> r.vw,
         op |-> IF Mounted(t) THEN Op("clearSearch", "none", 0) ELSE op]

\* lines 661-697: handleSearchModeChange(newMode); the callback it hands to
\* setTimeout keeps the query of this render and newMode
handleSearchModeChange(t, ss, vw, op, newMode) ==
    IF newMode = t.search.searchMode
      THEN [tool |-> t, ss |-> ss, vw |-> vw, op |-> op]
      ELSE LET r == IF Mounted(t) THEN clearSearch(ss, vw)
                    ELSE [ss |-> ss, vw |-> vw, ret |-> 0]
           IN  [tool |-> [t EXCEPT !.search.searchMode = newMode,
                                   !.search.currentMatchIndex = 0,
                                   !.search.totalMatches = 0,
                                   !.timers =
                                      IF t.search.query # Str0
                                        THEN @ \cup {[query |-> t.search.query,
                                                      mode |-> newMode]}
                                        ELSE @],
                ss |-> r.ss, vw |-> r.vw,
                op |-> IF Mounted(t) THEN Op("clearSearch", "none", 0) ELSE op]

ToolInit ==
    /\ tool = NoTool
    /\ ViewerIdle
    /\ AlignIdle
    /\ scan = NoScan
    /\ fmt = NoFmt

\* lines 374-414: service.initialize() settles
InitializeService ==
    \E ok \in BOOLEAN :
        /\ tool.isInitializing
        /\ tool' = AutoCompare([tool EXCEPT !.service = ok,
                                            !.isInitializing = FALSE])
        /\ UNCHANGED <<alignVars, viewerVars, scan, fmt>>

\* usePageContext reports another selected item; the render runs the
\* auto-compare effect, and a comparison it starts unmounts the DiffViewer
SelectItem ==
    \E item \in Items \ {tool.itemId} :
        LET t == AutoCompare([tool EXCEPT !.itemId = item])
        IN  /\ tool' = t
            /\ IF Mounted(tool) /\ ~Mounted(t)
                 THEN /\ searchState' = Unmounted.ss
                      /\ views' = Unmounted.vw
                      /\ lastOp' = Unmounted.op
                      /\ props' = Unmounted.props
                 ELSE UNCHANGED viewerVars
            /\ UNCHANGED <<alignVars, scan, fmt>>

\* line 774: the Refresh button, disabled while isComparing
Refresh ==
    /\ Rendered(tool)
    /\ ~tool.isComparing
    /\ LET t == performComparison(tool)
       IN  /\ tool' = t
           /\ IF Mounted(tool) /\ ~Mounted(t)
                THEN /\ searchState' = Unmounted.ss
                     /\ views' = Unmounted.vw
                     /\ lastOp' = Unmounted.op
                     /\ props' = Unmounted.props
                ELSE UNCHANGED viewerVars
    /\ UNCHANGED <<alignVars, scan, fmt>>

\* lines 426-431 and 518-520: compareLayouts resolves, the result is set
\* and isComparing is reset; the render mounts a new DiffViewer, whose
\* first effect creates the editors
CompareResolves ==
    \E item \in tool.inflight, pair \in ResultPairs :
        LET t == [tool EXCEPT !.inflight = @ \ {item},
                              !.comparisonResult = [item |-> item, pair |-> pair],
                              !.isComparing = FALSE]
        IN  /\ tool' = t
            /\ IF Mounted(t)
                 THEN /\ searchState' = EmptySearchState
                      /\ views' = MountedViews[pair]
                      /\ lastOp' = Op("rebuild", "none", 0)
                      /\ props' = <<pair[1], pair[2], TRUE>>
                 ELSE UNCHANGED viewerVars
            /\ UNCHANGED <<alignVars, scan, fmt>>

\* line 950: the user edits the search box
HandleSearch ==
    \E query \in Queries :
        /\ Mounted(tool)
        /\ LET r == handleSearch(tool, searchState, views, lastOp, query,
                                 tool.search.searchMode)
           IN  /\ tool' = r.tool
               /\ searchState' = r.ss
               /\ views' = r.vw
               /\ lastOp' = r.op
        /\ UNCHANGED <<alignVars, scan, fmt, props>>

\* lines 951-958, 1040, 1053: Enter / Shift+Enter and the arrow buttons
HandleNextMatch ==
    /\ Mounted(tool)
    /\ LET r == handleMatch(tool, searchState, views, lastOp, TRUE)
       IN  /\ tool' = r.tool
           /\ searchState' = r.ss
           /\ views' = r.vw
           /\ lastOp' = r.op
    /\ UNCHANGED <<alignVars, scan, fmt, props>>

HandlePreviousMatch ==
    /\ Mounted(tool)
    /\ LET r == handleMatch(tool, searchState, views, lastOp, FALSE)
       IN  /\ tool' = r.tool
           /\ searchState' = r.ss
           /\ views' = r.vw
           /\ lastOp' = r.op
    /\ UNCHANGED <<alignVars, scan, fmt, props>>

\* lines 959-961, 975: Escape and the clear button
HandleClearSearch ==
    /\ Mounted(tool)
    /\ LET r == handleClearSearch(tool, searchState, views, lastOp)
       IN  /\ tool' = r.tool
           /\ searchState' = r.ss
           /\ views' = r.vw
           /\ lastOp' = r.op
    /\ UNCHANGED <<alignVars, scan, fmt, props>>

\* lines 994, 1015: the Preview / Published buttons
HandleSearchModeChange ==
    \E newMode \in Sides :
        /\ Mounted(tool)
        /\ Cardinality(tool.timers) < MaxTimers
        /\ LET r == handleSearchModeChange(tool, searchState, views, lastOp,
                                           newMode)
           IN  /\ tool' = r.tool
               /\ searchState' = r.ss
               /\ views' = r.vw
               /\ lastOp' = r.op
        /\ UNCHANGED <<alignVars, scan, fmt, props>>

\* lines 691-693: a setTimeout callback runs
TimerFires ==
    \E tm \in tool.timers :
        LET r == handleSearch([tool EXCEPT !.timers = @ \ {tm}], searchState,
                              views, lastOp, tm.query, tm.mode)
        IN  /\ tool' = r.tool
            /\ searchState' = r.ss
            /\ views' = r.vw
            /\ lastOp' = r.op
            /\ UNCHANGED <<alignVars, scan, fmt, props>>

ToolNext ==
    \/ InitializeService
    \/ SelectItem
    \/ Refresh
    \/ CompareResolves
    \/ HandleSearch
    \/ HandleNextMatch
    \/ HandlePreviousMatch
    \/ HandleClearSearch
    \/ HandleSearchModeChange
    \/ TimerFires
    \/ ViewUpdate

SpecTool == ToolInit /\ [][ToolNext]_vars

\* the promises settle: initialisation finishes and a comparison in flight
\* resolves; the user is free to act or not
SpecToolFair ==
    /\ SpecTool
    /\ WF_vars(InitializeService)
    /\ WF_vars(CompareResolves)

-----------------------------------------------------------------------------
(* formatJson applied to a value, then to the string it returned *)

FormatChars == {"1", "[", "]", ",", " ", "\n", "\r", "a"}

\* the values of any type handed to formatJson: strings, arrays, and the
\* scalars 1, 0, true, false, null and undefined passed as they are
FormatInputs ==
    {StringInput(c) : c \in UNION {[1..k -> FormatChars] : k \in 0..MaxJsonLen}}
      \cup {StringInput(w) : w \in Literals}
      \cup {JsonTwoOnes, JsonOneOne, NotJson, ArrayOfTwo,
            ObjectInput(Arr(<<>>)),
            ObjectInput(Arr(<<Arr(<<Num(<<"1">>), Lit(<<"n", "u", "l", "l">>)>>),
                              Num(<<"2">>)>>)),
            OtherInput(<<"1">>, <<"1">>),
            OtherInput(Str0, <<"0">>),
            OtherInput(<<"t", "r", "u", "e">>, <<"t", "r", "u", "e">>),
            OtherInput(Str0, <<"f", "a", "l", "s", "e">>),
            NullInput,
            OtherInput(Str0, Str0)}

FormatInit ==
    /\ \E x \in FormatInputs :
           fmt = [input |-> x, first |-> Str0, second |-> Str0, phase |-> "call"]
    /\ ViewerIdle
    /\ AlignIdle
    /\ scan = NoScan
    /\ tool = NoTool

\* formatJson(jsonData)
FormatFirst ==
    /\ fmt.phase = "call"
    /\ fmt' = [fmt EXCEPT !.first = formatJson(fmt.input), !.phase = "once"]
    /\ UNCHANGED <<alignVars, viewerVars, scan, tool>>

\* formatJson of the string the first call returned
FormatAgain ==
    /\ fmt.phase = "once"
    /\ fmt' = [fmt EXCEPT !.second = formatJson(StringInput(fmt.first)),
                          !.phase = "twice"]
    /\ UNCHANGED <<alignVars, viewerVars, scan, tool>>

FormatNext ==
    \/ FormatFirst
    \/ FormatAgain

SpecFormat == FormatInit /\ [][FormatNext]_vars

-----------------------------------------------------------------------------
(* Properties of the aligner's result *)

Range(s) == {s[k] : k \in 1..Len(s)}

\* s with the elements at the positions in G removed
RemoveAt(s, G) ==
    LET keep == (1..Len(s)) \ G
        kth(k) == CHOOSE i \in keep : Cardinality({j \in keep : j < i}) = k - 1
    IN  [k \in 1..Cardinality(keep) |-> s[kth(k)]]

\* `lines` is `rows` with some of its empty rows (the gaps) removed
IsRowsOf(rows, lines) ==
    \/ rows = lines
    \/ /\ Len(rows) > Len(lines)
       /\ \E G \in SUBSET {k \in 1..Len(rows) : rows[k] = EmptyLine} :
             /\ Cardinality(G) = Len(rows) - Len(lines)
             /\ RemoveAt(rows, G) = lines

HasEmptyLine(t) == \E k \in 1..Len(t) : t[k] = EmptyLine

InsertAt(s, p, x) == SubSeq(s, 1, p) \o <<x>> \o SubSeq(s, p + 1, Len(s))

AllRows(t) == 0..(Len(t) - 1)

\* C1: alignment completeness -- in the returned result the non-gap rows of
\* alignedText1 are exactly the lines of text1, in order, and likewise for
\* alignedText2 and text2; no input line is dropped, duplicated or reordered.
C1_AlignmentComplete ==
    phase = "done" =>
        /\ IsRowsOf(diffResult.alignedText1, text1)
        /\ IsRowsOf(diffResult.alignedText2, text2)

\* C2: alignment length invariant -- alignedText1 and alignedText2 have the
\* same number of lines, from the main loop and from the fallback alike.
C2_SameLength ==
    phase = "done" =>
        Len(diffResult.alignedText1) = Len(diffResult.alignedText2)

\* C6: no diff on identical -- for identical inputs both diff sets are empty.
C6_NoDiffOnIdentical ==
    (phase = "done" /\ text1 = text2) =>
        /\ diffResult.diffLines1 = {}
        /\ diffResult.diffLines2 = {}

\* a call on identical texts of several lines has returned from the main loop
C6_Witness ==
    /\ phase = "done"
    /\ text1 = text2
    /\ Len(text1) >= 2
    /\ exitPath = "loop"
    /\ loop.alignedIndex >= 2

\* C7: identical inputs give a 1:1 row mapping -- as many rows as x has
\* lines, row k holding line k of x on both sides.
C7_IdenticalOneToOne ==
    (phase = "done" /\ text1 = text2) =>
        /\ diffResult.alignedText1 = text1
        /\ diffResult.alignedText2 = text2

\* C8: single insertion -- if text2 is text1 with one extra line x inserted at
\* index p and x occurs nowhere in text1, the result has len(text2) rows,
\* row p is a gap on the left and x on the right, diffLines2 = {p} and
\* diffLines1 is empty.
C8_SingleInsertion ==
    phase = "done" =>
        \A p \in 0..Len(text1) : \A x \in LineSet :
            (/\ Len(text2) = Len(text1) + 1
             /\ x \notin Range(text1)
             /\ text2 = InsertAt(text1, p, x))
            => /\ Len(diffResult.alignedText1) = Len(text2)
               /\ Len(diffResult.alignedText2) = Len(text2)
               /\ diffResult.alignedText1[p + 1] = EmptyLine
               /\ diffResult.alignedText2[p + 1] = x
               /\ diffResult.diffLines2 = {p}
               /\ diffResult.diffLines1 = {}

\* every row of the result is a gap on side `gapSide` facing a line of `t`
OnlyRowsOf(t, gapText, lineText, gapDiff, lineDiff) ==
    /\ Len(gapText) = Len(t)
    /\ lineText = t
    /\ \A k \in 1..Len(gapText) : gapText[k] = EmptyLine
    /\ lineDiff = AllRows(t)
    /\ gapDiff = {}

\* C9: empty input -- an empty text1 gives as many rows as text2 has lines,
\* all of them right-only insertions (diffLines2 every row, diffLines1
\* empty); an empty text2 gives only left-only deletions.  (The pair of two
\* empty texts is left aside: the statement fails without it.)
C9_EmptyInput ==
    phase = "done" =>
        /\ (text1 = <<EmptyLine>> /\ text2 # <<EmptyLine>>) =>
              OnlyRowsOf(text2, diffResult.alignedText1, diffResult.alignedText2,
                         diffResult.diffLines1, diffResult.diffLines2)
        /\ (text2 = <<EmptyLine>> /\ text1 # <<EmptyLine>>) =>
              OnlyRowsOf(text1, diffResult.alignedText2, diffResult.alignedText1,
                         diffResult.diffLines2, diffResult.diffLines1)

\* C18: computeDiffWithAlignment terminates on every pair of input texts,
\* and the number of rows it emits never exceeds
\* 2 x max(number of left lines, number of right lines).
C18_TerminatesWithinBound ==
    /\ <>(phase = "done")
    /\ [](/\ Len(loop.alignedText1) <= 2 * Max(Len(text1), Len(text2))
          /\ Len(loop.alignedText2) <= 2 * Max(Len(text1), Len(text2))
          /\ phase = "done" =>
                /\ Len(diffResult.alignedText1) <= 2 * Max(Len(text1), Len(text2))
                /\ Len(diffResult.alignedText2) <= 2 * Max(Len(text1), Len(text2)))

\* a call has returned from the main loop with more rows than either text
\* has lines
C18_Witness ==
    /\ phase = "done"
    /\ exitPath = "loop"
    /\ Len(diffResult.alignedText1) > Max(Len(text1), Len(text2))
    /\ loop.iterations > Max(Len(text1), Len(text2))

\* the 1-based positions of a side's gap rows: an insertion or deletion marks
\* the row on the other side only
GapRows(other, own) == {k + 1 : k \in other \ own}

\* C21: completeness of the legacy look-ahead aligner -- for all inputs,
\* empty lines included, both aligned sequences have the same length and
\* removing each side's gap rows gives that side's input lines in order.
C21_StructuredComplete ==
    (phase = "done" /\ exitPath = "structured") =>
        /\ Len(diffResult.alignedText1) = Len(diffResult.alignedText2)
        /\ Len(loop.alignedText1) = Len(loop.alignedText2)
        /\ RemoveAt(loop.alignedText1, GapRows(loop.diffLines2, loop.diffLines1)) = text1
        /\ RemoveAt(loop.alignedText2, GapRows(loop.diffLines1, loop.diffLines2)) = text2
        /\ diffResult.alignedText1 = loop.alignedText1
        /\ diffResult.alignedText2 = loop.alignedText2

\* the legacy aligner has returned rows with gaps on both sides for texts
\* that contain empty lines
C21_Witness ==
    /\ phase = "done"
    /\ exitPath = "structured"
    /\ HasEmptyLine(text1)
    /\ HasEmptyLine(text2)
    /\ Len(diffResult.alignedText1) > Max(Len(text1), Len(text2))

\* the loop is about to run an iteration on two non-empty lines that differ
DifferingLines ==
    /\ phase = "loop"
    /\ LoopCond(loop, text1, text2)
    /\ Truthy(text1, loop.i1)
    /\ Truthy(text2, loop.i2)
    /\ text1[loop.i1 + 1] # text2[loop.i2 + 1]

\* lines[from + d] exists and is `target` (0-based from)
FoundAt(lines, from, d, target) ==
    from + d < Len(lines) /\ lines[from + d + 1] = target

\* the step emitted right[j] as a right-only insertion row: a gap on the
\* left, the row marked in the right diff set, only the right cursor moved
InsertionStep ==
    /\ loop'.alignedText1 = Append(loop.alignedText1, EmptyLine)
    /\ loop'.alignedText2 = Append(loop.alignedText2, text2[loop.i2 + 1])
    /\ loop'.diffLines1 = loop.diffLines1
    /\ loop'.diffLines2 = loop.diffLines2 \cup {loop.alignedIndex}
    /\ loop'.i1 = loop.i1
    /\ loop'.i2 = loop.i2 + 1

\* the step emitted left[i] as a left-only deletion row
DeletionStep ==
    /\ loop'.alignedText1 = Append(loop.alignedText1, text1[loop.i1 + 1])
    /\ loop'.alignedText2 = Append(loop.alignedText2, EmptyLine)
    /\ loop'.diffLines1 = loop.diffLines1 \cup {loop.alignedIndex}
    /\ loop'.diffLines2 = loop.diffLines2
    /\ loop'.i1 = loop.i1 + 1
    /\ loop'.i2 = loop.i2

\* C23: look-ahead window -- when the current lines differ (both non-empty)
\* and left[i] equals right[j + d] for some distance d with 1 <= d <= 5,
\* right[j] is emitted as a right-only insertion row.
C23_LookAheadWindow ==
    [][(/\ DifferingLines
        /\ \E d \in 1..5 : FoundAt(text2, loop.i2, d, text1[loop.i1 + 1]))
          => InsertionStep]_vars

\* the smallest distance at which `target` stands after lines[from]
Distance(lines, from, target) ==
    CHOOSE d \in 1..Len(lines) :
        /\ FoundAt(lines, from, d, target)
        /\ \A e \in 1..(d - 1) : ~FoundAt(lines, from, e, target)

\* C24: look-ahead tie-break -- when the current lines differ and both
\* look-aheads succeed (left[i] later in right at distance dR, right[j]
\* later in left at distance dL), the row is an insertion if dR <= dL and a
\* deletion if dL < dR.
C24_SmallerDistanceWins ==
    [][(/\ DifferingLines
        /\ FoundLater(text2, loop.i2, text1[loop.i1 + 1])
        /\ FoundLater(text1, loop.i1, text2[loop.i2 + 1]))
          => LET dR == Distance(text2, loop.i2, text1[loop.i1 + 1])
                 dL == Distance(text1, loop.i1, text2[loop.i2 + 1])
             IN  IF dR <= dL THEN InsertionStep ELSE DeletionStep]_vars

\* C25: the final else branch of the main loop (the safety break) is never
\* executed; the loop ends only when both cursors have reached the end of
\* their line arrays or the iteration limit is hit.
C25_SafetyBreakUnreached ==
    /\ ~loop.broke
    /\ (phase = "loop" /\ ~LoopCond(loop, text1, text2)) =>
          \/ loop.i1 >= Len(text1) /\ loop.i2 >= Len(text2)
          \/ HitLimit(loop, text1, text2)

\* row k (0-based) of a text, a missing row counting as the empty string
RowAt(t, k) == IF k < Len(t) THEN t[k + 1] ELSE EmptyLine

\* C26: in every result, of the main loop or of the fallback, a row that is
\* in neither diffLines1 nor diffLines2 holds the same text on both sides;
\* no differing row is left unmarked on both sides.
C26_UnmarkedRowsEqual ==
    phase = "done" =>
        \A k \in 0..(Max(Len(diffResult.alignedText1),
                         Len(diffResult.alignedText2)) - 1) :
            (k \notin diffResult.diffLines1 /\ k \notin diffResult.diffLines2)
              => RowAt(diffResult.alignedText1, k) = RowAt(diffResult.alignedText2, k)

\* a result of the main loop, on an input with an empty line, that has a
\* marked row and an unmarked row
C26_Witness ==
    /\ phase = "done"
    /\ exitPath = "loop"
    /\ HasEmptyLine(text1)
    /\ diffResult.diffLines1 \cup diffResult.diffLines2 # {}
    /\ \E k \in AllRows(diffResult.alignedText1) :
          k \notin diffResult.diffLines1 \cup diffResult.diffLines2

\* C27: if neither text contains an empty line and both have at most 10000
\* lines, the loop never reaches MAX_ITERATIONS and the call never returns
\* through the computeSimpleDiff fallback.
C27_NoFallbackWithoutEmptyLines ==
    (~HasEmptyLine(text1) /\ ~HasEmptyLine(text2) /\ ~TooLarge(text1, text2)) =>
        /\ loop.iterations < MAX_ITERATIONS(text1, text2)
        /\ exitPath \notin {"limit", "large"}

\* a call without empty lines has returned from the main loop after more
\* iterations than either text has lines
C27_Witness ==
    /\ phase = "done"
    /\ exitPath = "loop"
    /\ ~HasEmptyLine(text1)
    /\ ~HasEmptyLine(text2)
    /\ loop.iterations > Max(Len(text1), Len(text2))

-----------------------------------------------------------------------------
(* Properties of the DiffViewer's search state *)

MatchCount(side) ==
    IF searchState[side].query = Str0 THEN 0
    ELSE Len(createSearchCursor(views[side].doc, searchState[side].query))

\* C3: after the document pair is replaced (the effect has rebuilt the
\* editors) both sides' SearchState is empty -- getSearchMatches and
\* getCurrentMatchIndex return 0 and findNextMatch / findPreviousMatch
\* return false -- and nothing of the previous pair's search survives.
C3_RebuildClearsSearch ==
    lastOp.op = "rebuild" =>
        /\ searchState = EmptySearchState
        /\ \A e \in Sides :
              /\ getSearchMatches(e) = 0
              /\ getCurrentMatchIndex(e) = 0
              /\ ~findNextMatch(e, searchState, views).ret
              /\ ~findPreviousMatch(e, searchState, views).ret

\* C4: for each side 0 <= currentTarget <= total, and an empty query goes
\* with currentTarget = 0 and total = 0.
C4_SearchStateInvariant ==
    \A e \in Sides :
        /\ 0 <= searchState[e].currentTarget
        /\ searchState[e].currentTarget <= searchState[e].total
        /\ searchState[e].query = Str0 =>
              (searchState[e].currentTarget = 0 /\ searchState[e].total = 0)

\* C5: each side's stored total is the number of matches of its stored query
\* in the document its editor displays now (0 for the empty query).
C5_TotalIsMatchCount ==
    \A e \in Sides : searchState[e].total = MatchCount(e)

PreviewOps == {"searchInPreview", "findNextMatch", "findPreviousMatch"}

PublishedOps == {"searchInPublished", "findNextMatch", "findPreviousMatch"}

\* C10: side independence -- searchInPreview and navigation on 'preview'
\* never change the published side's (query, currentTarget, total);
\* searchInPublished and navigation on 'published' never change preview's.
C10_SideIndependence ==
    [][/\ (lastOp'.op \in PreviewOps /\ lastOp'.side = "preview")
            => searchState'.published = searchState.published
       /\ (lastOp'.op \in PublishedOps /\ lastOp'.side = "published")
            => searchState'.preview = searchState.preview]_vars

\* a search on one side has found matches while the other side holds the
\* matches of a different query
C10_Witness ==
    /\ lastOp.op = "searchInPublished"
    /\ lastOp.ret > 0
    /\ searchState.preview.total > 0
    /\ searchState.preview.currentTarget > 1
    /\ searchState.preview.query # searchState.published.query

\* C11: a query that is empty or only whitespace yields no matches --
\* searchInPreview / searchInPublished return 0 and leave the side inactive
\* (query empty, total 0, current index 0), with or without a document, and
\* searchInEditor returns the empty list.
C11_BlankQueryInactive ==
    /\ (lastOp.op \in {"searchInPreview", "searchInPublished"}
            /\ Trim(lastOp.query) = Str0)
          => /\ lastOp.ret = 0
             /\ searchState[lastOp.side] = EmptySide
    /\ \A e \in Sides : \A q \in Queries :
          Trim(q) = Str0 => searchInEditor(views[e].doc, q) = <<>>

\* what k consecutive calls of findNextMatch(e) return, and the current
\* index each leaves behind
RECURSIVE NextRun(_, _, _, _)
NextRun(e, ss, vw, k) ==
    IF k = 0 THEN <<>>
    ELSE LET r == findNextMatch(e, ss, vw)
         IN  <<[ret |-> r.ret, index |-> r.ss[e].currentTarget]>>
                 \o NextRun(e, r.ss, r.vw, k - 1)

\* the same for findPreviousMatch(e)
RECURSIVE PrevRun(_, _, _, _)
PrevRun(e, ss, vw, k) ==
    IF k = 0 THEN <<>>
    ELSE LET r == findPreviousMatch(e, ss, vw)
         IN  <<[ret |-> r.ret, index |-> r.ss[e].currentTarget]>>
                 \o PrevRun(e, r.ss, r.vw, k - 1)

\* C12: search cyclicity -- on a side with total = n >= 1 and current index
\* 1, n consecutive findNextMatch calls each return true and visit
\* 2, 3, ..., n, 1; n consecutive findPreviousMatch calls each return true
\* and visit n, n-1, ..., 1.
C12_SearchCyclicity ==
    \A e \in Sides :
        LET n == searchState[e].total
        IN  (n >= 1 /\ searchState[e].currentTarget = 1) =>
              /\ NextRun(e, searchState, views, n) =
                    [k \in 1..n |->
                        [ret |-> TRUE, index |-> IF k = n THEN 1 ELSE k + 1]]
              /\ PrevRun(e, searchState, views, n) =
                    [k \in 1..n |-> [ret |-> TRUE, index |-> n - k + 1]]

NavigationOps == {"findNextMatch", "findPreviousMatch"}

\* the span of the k-th match of the side's query in the side's document
\* (no span when there is no k-th match)
KthMatch(ss, vw, e) ==
    LET ms == createSearchCursor(vw[e].doc, ss[e].query)
        k  == ss[e].currentTarget
    IN  IF ss[e].query # Str0 /\ k >= 1 /\ k <= Len(ms) THEN <<ms[k]>> ELSE <<>>

\* C13: whenever findNextMatch or findPreviousMatch returns true, the side's
\* current index has been moved to its cyclic successor / predecessor and the
\* span selected and scrolled to in that side's editor is the span of the
\* match with that index, in scan order, of the side's query in the document
\* the side displays.
C13_ReportedSpanIsCurrentMatch ==
    [][(lastOp'.op \in NavigationOps /\ lastOp'.ret = TRUE) =>
          LET e == lastOp'.side
              n == searchState[e].total
              c == searchState[e].currentTarget
          IN  /\ searchState'[e].currentTarget =
                    IF lastOp'.op = "findNextMatch"
                      THEN (IF c >= n THEN 1 ELSE c + 1)
                      ELSE (IF c <= 1 THEN n ELSE c - 1)
              /\ KthMatch(searchState', views', e) = <<views'[e].selection>>]_vars

\* the side has no active matches: no editor, an empty query or total 0
NoActiveMatches(ss, vw, e) ==
    ~vw[e].alive \/ ss[e].query = Str0 \/ ss[e].total = 0

\* C14: findNextMatch / findPreviousMatch on a side without active matches
\* (empty query, total 0, or no editor) returns false and leaves both
\* sides' SearchState unchanged.
C14_NavigateInactive ==
    [][(lastOp'.op \in NavigationOps
            /\ NoActiveMatches(searchState, views, lastOp'.side))
          => /\ lastOp'.ret = FALSE
             /\ searchState' = searchState]_vars

\* a navigation has returned false on a side whose editor exists and whose
\* query found nothing, while the other side holds matches
C14_Witness ==
    /\ lastOp.op \in NavigationOps
    /\ lastOp.ret = FALSE
    /\ views[lastOp.side].alive
    /\ searchState[lastOp.side].query # Str0
    /\ searchState[lastOp.side].total = 0
    /\ \E o \in Sides \ {lastOp.side} : searchState[o].total > 0

SearchOps == {"searchInPreview", "searchInPublished"}

\* the number of matches of `query` in the text the effect shows on `side`
\* for the props p (0 for the empty query and when it creates no editor)
CountInPair(p, side, query) ==
    LET shown == RebuildViews(p[1], p[2], p[3])[side]
    IN  IF ~shown.alive \/ query = Str0 THEN 0
        ELSE Len(createSearchCursor(shown.doc, query))

\* C16: once the editors have been rebuilt for a pair, searchInPreview(q) /
\* searchInPublished(q) return the number of matches of q in that side's
\* text of this pair, never a count taken on the previous pair's text.
C16_SearchCountsNewPair ==
    (lastOp.op \in SearchOps /\ props # NoProps) =>
        lastOp.ret = CountInPair(props, lastOp.side, lastOp.query)

\* a search has returned matches after the pair was replaced: the other side
\* still carries the total of a search on the previous pair
C16_Witness ==
    /\ lastOp.op \in SearchOps
    /\ lastOp.ret > 0
    /\ props # NoProps
    /\ \E o \in Sides \ {lastOp.side} :
          /\ searchState[o].query = lastOp.query
          /\ searchState[o].total > 0
          /\ searchState[o].total # CountInPair(props, o, lastOp.query)

\* C17: clearSearch resets both sides' SearchState to (query "",
\* currentTarget 0, total 0) and leaves the text and the diff-line set of
\* both editors unchanged.
C17_ClearSearchFrame ==
    [][lastOp'.op = "clearSearch" =>
          /\ searchState' = EmptySearchState
          /\ \A e \in Sides :
                /\ views'[e].alive = views[e].alive
                /\ views'[e].doc = views[e].doc
                /\ views'[e].diffLines = views[e].diffLines]_vars

\* clearSearch has run on two editors of a diff (one has marked rows) that
\* both still show the selection of a match found before
C17_Witness ==
    /\ lastOp.op = "clearSearch"
    /\ searchState = EmptySearchState
    /\ \A e \in Sides : views[e].alive /\ views[e].selection # NoSpan
    /\ \E e \in Sides : views[e].diffLines # {}

-----------------------------------------------------------------------------
(* Properties of a search scan *)

\* strictly ascending by from, no empty span, no two spans overlapping
Ordered(ms) ==
    /\ \A k \in 1..Len(ms) : ms[k].from < ms[k].to
    /\ \A k \in 1..(Len(ms) - 1) :
          /\ ms[k].from < ms[k + 1].from
          /\ ms[k].to <= ms[k + 1].from

\* C15: search ordering -- for every document and every non-empty query the
\* matches the scan produces (searchInEditor's list, and the SearchCursor
\* scan the DiffViewer handle counts and navigates with) are strictly
\* ascending by from, have from < to, and do not overlap.
C15_SearchOrdering ==
    scan.query # Str0 =>
        /\ Ordered(scan.results)
        /\ scan.phase = "done" =>
              /\ Ordered(searchInEditor(scan.doc, scan.query))
              /\ Ordered(createSearchCursor(scan.doc, scan.query))
              /\ scan.results = IF scan.caller = "searchInEditor"
                                  THEN searchInEditor(scan.doc, scan.query)
                                  ELSE createSearchCursor(scan.doc, scan.query)

\* a scan has ended with several matches of a query of several characters,
\* having passed over an occurrence that overlaps a reported match
C15_Witness ==
    /\ scan.phase = "done"
    /\ Len(scan.query) >= 2
    /\ Len(scan.results) >= 2
    /\ \E p \in 0..Len(scan.doc) :
          /\ MatchAt(scan.doc, scan.query, p)
          /\ \A k \in 1..Len(scan.results) : scan.results[k].from # p

-----------------------------------------------------------------------------
(* Properties of formatJson *)

\* the value round-trips through JSON: a string that parses, an array, or a
\* scalar that JSON.stringify renders
RoundTrips(x) ==
    \/ x.kind = "string" /\ JSONparse(Trim(NormalizeEol(x.chars))).ok
    \/ x.kind = "object"
    \/ x.kind = "other" /\ x.json # Str0

\* C19: normalizer idempotence -- formatJson(formatJson(x)) = formatJson(x)
\* for every x that round-trips through JSON: a structured value, a JSON
\* string, or a bare scalar (number, boolean, null) passed as a non-string.
C19_FormatIdempotent ==
    (fmt.phase = "twice" /\ RoundTrips(fmt.input)) => fmt.second = fmt.first

\* C20: for every string that fails to parse as JSON, formatJson returns the
\* input with CRLF / CR converted to LF and leading and trailing whitespace
\* trimmed, not the raw input.
C20_ParseFailureNormalized ==
    (fmt.phase # "call" /\ fmt.phase # "idle" /\ fmt.input.kind = "string"
        /\ ~JSONparse(Trim(NormalizeEol(fmt.input.chars))).ok)
      => fmt.first = Trim(NormalizeEol(fmt.input.chars))

\* C28: right after searchInPreview / searchInPublished the number returned
\* is what getSearchMatches gives for that side, and the side holds the
\* searched query only with the total counted for it -- when the search
\* ends in its catch block the side's state is the old one or the cleared
\* one, never the new query with the previous total.
C28_SearchAtomic ==
    lastOp.op \in SearchOps =>
        /\ lastOp.ret = getSearchMatches(lastOp.side)
        /\ (lastOp.query # Str0 /\ searchState[lastOp.side].query = lastOp.query
               /\ views[lastOp.side].alive)
             => searchState[lastOp.side].total
                  = Len(createSearchCursor(views[lastOp.side].doc, lastOp.query))

-----------------------------------------------------------------------------
(* ItemDiffTool *)

\* the comparison shown is the one of `item`
Displays(item) ==
    /\ ~tool.isComparing
    /\ tool.comparisonResult # NoComparison
    /\ tool.comparisonResult.item = item

\* C22: whenever an item is selected while the comparison service is
\* initialized, a comparison of that item is eventually started and its
\* result displayed (unless the selection moves on first) -- also when the
\* selection changed while an earlier comparison was in flight.
C22_SelectedItemCompared ==
    \A item \in Items :
        (tool.itemId = item /\ tool.service /\ ~tool.isInitializing)
            ~> (tool.itemId # item \/ Displays(item))

\* neither ItemDiffTool nor either side of the DiffViewer holds a query
NoSearchActive ==
    /\ tool.search.query = Str0
    /\ searchState.preview.query = Str0
    /\ searchState.published.query = Str0

\* C29: once handleClearSearch has run no search is active until the user
\* next types a query: every step other than an edit of the search box
\* leaves an inactive search inactive, the delayed re-search of a mode
\* switch included.
C29_ClearedUntilTyped ==
    [][(NoSearchActive /\ ~HandleSearch) => NoSearchActive']_vars

\* line 1071: the badge reads "currentMatchIndex of totalMatches"
ShowsCount ==
    /\ Mounted(tool)
    /\ tool.search.query # Str0
    /\ tool.search.totalMatches > 0

\* C30: whenever ItemDiffTool shows "k of n" with n > 0 for the active
\* search mode, the mounted DiffViewer's getSearchMatches(mode) is n and
\* its getCurrentMatchIndex(mode) is k.
C30_BadgeMatchesViewer ==
    ShowsCount =>
        /\ getSearchMatches(tool.search.searchMode) = tool.search.totalMatches
        /\ getCurrentMatchIndex(tool.search.searchMode)
             = tool.search.currentMatchIndex

=============================================================================
